---- MODULE Spec2Model ----
(***************************************************************************)
(* SchoolPay front ends: the role/permission tables and their accessors    *)
(* (lib/permissions.js), the school dashboard's route guards (App.jsx with *)
(* lib/auth.jsx) and the public payment page (pages/PayPage.jsx).          *)
(*                                                                         *)
(* The specifications share the variables below:                           *)
(*   SpecPerm   the accessors can / allowedNav / roleInfo applied to drawn *)
(*              inputs                                                     *)
(*   SpecRoute  the school dashboard's session and router                  *)
(*   SpecAdmin  the super-admin app's session and router                   *)
(*   SpecPay    one PayPage session: mount, invoice fetch, status polling  *)
(*              by PayPage.startPolling and by ProcessingScreen, unmount   *)
(*   SpecPayLive  SpecPay with its timers and status requests kept going   *)
(*   SpecApi    the response interceptor of lib/api.js: 401 answers, the   *)
(*              shared token refresh, the replay and the forced logout     *)
(* Each specification keeps the other parts' variables at their idle       *)
(* values.                                                                 *)
(***************************************************************************)
EXTENDS Integers, Sequences, FiniteSets, TLC

VARIABLES
    \* ---- SpecPerm: one call of each accessor on drawn arguments
    pUser,        \* the user argument: [present, role]
    pAction,      \* the capability id argument
    canCalled,    \* can(pUser, pAction) has returned
    canRet,       \* its return value (a JS value)
    navCalled,    \* allowedNav(pUser.role) has returned
    navRet,       \* its return value (an array of nav ids)
    infoCalled,   \* roleInfo(pUser.role) has returned
    infoRet,      \* its return value: [kind, key, label, description, color]
    \* ---- SpecRoute: AuthProvider state, localStorage, the router
    authUser,     \* useState user: [present, role]
    authLoading,  \* useState loading
    stored,       \* localStorage: [user (sp_user), token (sp_token present)]
    location,     \* window.location.pathname
    rendered,     \* what the matched <Route> element returned on the last render
    \* ---- SpecPay: one PayPage session
    pagePhase,    \* "fresh" (not mounted yet) | "mounted" | "unmounted"
    urlParam,     \* query of the visible URL: "none", or the redirect parameter it
                  \* carries with a value ("reference" | "trxref" | "ref"), or
                  \* "empty": a redirect parameter without a value (?reference=)
    invoice,      \* useState invoice: [loaded, status, can_pay_online]
    loading,      \* useState loading
    error,        \* useState error is a non-empty message
    mode,         \* useState mode: "null" | "paystack" | "transfer"
    screen,       \* useState screen: "main" | "processing" | "success" | "failed"
    receipt,      \* useState receipt: "null" or the status of the payment object kept
    pollRef,      \* PayPage pollRef.current holds a scheduled interval
    attempts,     \* startPolling's attempts counter
    fetchInFlight,   \* the mount effect's GET /pay/{token} awaits its answer
    checksInFlight,  \* startPolling.check requests awaiting their answer
    refreshInFlight, \* invoice refreshes (line 75) awaiting their answer
    refreshIssued,   \* invoice refreshes issued so far
    procTimer,    \* ProcessingScreen's setTimeout: "none" | "pending" | "fired"
    procInFlight, \* ProcessingScreen's GET /pay/{token}/status awaits its answer
    signalled,    \* the status endpoint has answered with a settlement signal
    \* ---- SpecApi: the axios instance of lib/api.js and its callers
    apiReq,          \* per original request: [phase, url, retry (_retry),
                     \* awaits (the refresh awaited), status (answer to the
                     \* request or replay last sent, 0: none yet), refreshes,
                     \* replays, handled (counts of what was done for it)]
    refreshPromise,  \* module variable refreshPromise: 0 (null) or the request
                     \* whose handler created the pending promise
    pendingRefresh,  \* refresh POSTs awaiting their answer, by creating request
    apiStore,        \* localStorage: presence of sp_token, sp_refresh_token, sp_user
    apiLocation      \* window.location: "app" or "/login"

permVars  == <<pUser, pAction, canCalled, canRet, navCalled, navRet,
               infoCalled, infoRet>>
routeVars == <<authUser, authLoading, stored, location, rendered>>
payState  == <<invoice, loading, error, mode, screen, receipt>>
payVars   == <<pagePhase, urlParam, payState, pollRef, attempts, fetchInFlight,
               checksInFlight, refreshInFlight, refreshIssued, procTimer,
               procInFlight, signalled>>

apiVars   == <<apiReq, refreshPromise, pendingRefresh, apiStore, apiLocation>>

-----------------------------------------------------------------------------
(* JavaScript values, as far as the accessors can produce or receive them. *)

JsUndefined   == [t |-> "undefined", s |-> "", b |-> FALSE]
JsBool(x)     == [t |-> "boolean",   s |-> "", b |-> x]
JsString(x)   == [t |-> "string",    s |-> x,  b |-> FALSE]
\* a function or object every object literal inherits from Object.prototype
JsBuiltin(k)  == [t |-> "builtin",   s |-> k,  b |-> FALSE]

\* ToBoolean, as `!x` and `if (x)` apply it
Truthy(v) ==
    CASE v.t = "boolean" -> v.b
      [] v.t = "string"  -> v.s # ""
      [] v.t = "builtin" -> TRUE
      [] OTHER           -> FALSE

\* ToPropertyKey of a value used as obj[value]
PropertyKey(v) == IF v.t = "undefined" THEN "undefined" ELSE v.s

\* Property names an object literal answers for without owning them
ObjectPrototypeKeys == {"constructor", "toString", "hasOwnProperty", "__proto__"}

\* a user object (or its absence) as the accessors read it: user?.role
NoUser       == [present |-> FALSE, role |-> JsUndefined]
UserOf(role) == [present |-> TRUE,  role |-> role]

\* Array.prototype.includes
Includes(arr, x) == \E i \in 1..Len(arr) : arr[i] = x

-----------------------------------------------------------------------------
(* lib/permissions.js                                                      *)

SCHOOL_PERMISSIONS ==
    [ school_admin |->
        [ label |-> "Administrator",
          description |-> "Full access. Manages staff, fees, and all settings.",
          color |-> "#e8c97a",
          nav |-> <<"dashboard", "students", "invoices", "payments", "debtors",
                    "approvals", "users">>,
          can |-> [ view_dashboard |-> TRUE, view_students |-> TRUE,
                    add_student |-> TRUE, edit_student |-> TRUE,
                    view_invoices |-> TRUE, generate_invoices |-> TRUE,
                    record_cash |-> TRUE, record_transfer |-> TRUE,
                    approve_transfers |-> TRUE, view_debtors |-> TRUE,
                    send_sms_blast |-> TRUE, manage_fee_structure |-> TRUE,
                    manage_users |-> TRUE, view_activity_logs |-> TRUE,
                    void_payment |-> TRUE ] ],
      bursar |->
        [ label |-> "Bursar",
          description |-> "Records and approves payments. Cannot manage staff or fee structures.",
          color |-> "#60a5fa",
          nav |-> <<"dashboard", "students", "invoices", "payments", "debtors",
                    "approvals">>,
          can |-> [ view_dashboard |-> TRUE, view_students |-> TRUE,
                    add_student |-> FALSE, edit_student |-> FALSE,
                    view_invoices |-> TRUE, generate_invoices |-> FALSE,
                    record_cash |-> TRUE, record_transfer |-> TRUE,
                    approve_transfers |-> TRUE, view_debtors |-> TRUE,
                    send_sms_blast |-> TRUE, manage_fee_structure |-> FALSE,
                    manage_users |-> FALSE, view_activity_logs |-> FALSE,
                    void_payment |-> FALSE ] ],
      teacher |->
        [ label |-> "Teacher",
          description |-> "View-only access to students and fee status. Cannot record payments.",
          color |-> "#4ade80",
          nav |-> <<"dashboard", "students">>,
          can |-> [ view_dashboard |-> TRUE, view_students |-> TRUE,
                    add_student |-> FALSE, edit_student |-> FALSE,
                    view_invoices |-> FALSE, generate_invoices |-> FALSE,
                    record_cash |-> FALSE, record_transfer |-> FALSE,
                    approve_transfers |-> FALSE, view_debtors |-> FALSE,
                    send_sms_blast |-> FALSE, manage_fee_structure |-> FALSE,
                    manage_users |-> FALSE, view_activity_logs |-> FALSE,
                    void_payment |-> FALSE ] ],
      accountant |->
        [ label |-> "Accountant",
          description |-> "Read-only financial reports. Cannot record or approve payments.",
          color |-> "#f472b6",
          nav |-> <<"dashboard", "invoices", "debtors">>,
          can |-> [ view_dashboard |-> TRUE, view_students |-> FALSE,
                    add_student |-> FALSE, edit_student |-> FALSE,
                    view_invoices |-> TRUE, generate_invoices |-> FALSE,
                    record_cash |-> FALSE, record_transfer |-> FALSE,
                    approve_transfers |-> FALSE, view_debtors |-> TRUE,
                    send_sms_blast |-> FALSE, manage_fee_structure |-> FALSE,
                    manage_users |-> FALSE, view_activity_logs |-> FALSE,
                    void_payment |-> FALSE ] ] ]

\* a plausible slip: a platform role is added under a name the tenant-staff
\* table already uses
PLATFORM_PERMISSIONS_Colliding ==
    [ platform_admin |->
        [ label |-> "Platform Admin",
          description |-> "Full platform access. Can activate/suspend schools, see all revenue.",
          color |-> "#e8c97a",
          nav |-> <<"dashboard", "schools", "subscriptions", "revenue", "team">>,
          can |-> [ view_all_schools |-> TRUE, activate_school |-> TRUE,
                    suspend_school |-> TRUE, view_revenue |-> TRUE,
                    manage_subscriptions |-> TRUE, manage_team |-> TRUE,
                    impersonate_school |-> TRUE ] ],
      accountant |->
        [ label |-> "Support Staff",
          description |-> "Can view schools and help with issues. Cannot take financial actions.",
          color |-> "#60a5fa",
          nav |-> <<"dashboard", "schools">>,
          can |-> [ view_all_schools |-> TRUE, activate_school |-> FALSE,
                    suspend_school |-> FALSE, view_revenue |-> FALSE,
                    manage_subscriptions |-> FALSE, manage_team |-> FALSE,
                    impersonate_school |-> FALSE ] ] ]

PLATFORM_PERMISSIONS ==
    [ platform_admin |->
        [ label |-> "Platform Admin",
          description |-> "Full platform access. Can activate/suspend schools, see all revenue.",
          color |-> "#e8c97a",
          nav |-> <<"dashboard", "schools", "subscriptions", "revenue", "team">>,
          can |-> [ view_all_schools |-> TRUE, activate_school |-> TRUE,
                    suspend_school |-> TRUE, view_revenue |-> TRUE,
                    manage_subscriptions |-> TRUE, manage_team |-> TRUE,
                    impersonate_school |-> TRUE ] ],
      platform_support |->
        [ label |-> "Support Staff",
          description |-> "Can view schools and help with issues. Cannot take financial actions.",
          color |-> "#60a5fa",
          nav |-> <<"dashboard", "schools">>,
          can |-> [ view_all_schools |-> TRUE, activate_school |-> FALSE,
                    suspend_school |-> FALSE, view_revenue |-> FALSE,
                    manage_subscriptions |-> FALSE, manage_team |-> FALSE,
                    impersonate_school |-> FALSE ] ] ]

SchoolRoles   == DOMAIN SCHOOL_PERMISSIONS
PlatformRoles == DOMAIN PLATFORM_PERMISSIONS

\* SCHOOL_PERMISSIONS[role] ?? PLATFORM_PERMISSIONS[role]: which value the
\* lookup yields. An own key of the first table wins; a name inherited from
\* Object.prototype is found on the first table too (it is not nullish, so
\* ?? never reaches the second table); otherwise the second table answers.
GetPerms(role) ==
    LET k == PropertyKey(role) IN
    IF k \in SchoolRoles THEN [kind |-> "school", key |-> k]
    ELSE IF k \in ObjectPrototypeKeys THEN [kind |-> "builtin", key |-> k]
    ELSE IF k \in PlatformRoles THEN [kind |-> "platform", key |-> k]
    ELSE [kind |-> "undefined", key |-> ""]

\* the role descriptor a found table entry denotes
Descriptor(perms) ==
    IF perms.kind = "school" THEN SCHOOL_PERMISSIONS[perms.key]
    ELSE PLATFORM_PERMISSIONS[perms.key]

IsDescriptor(perms) == perms.kind \in {"school", "platform"}

\* a plausible slip: an unknown capability of a known role is granted
canFailOpen(user, action) ==
    IF ~user.present \/ ~Truthy(user.role) THEN JsBool(FALSE)
    ELSE LET perms == GetPerms(user.role) IN
         IF IsDescriptor(perms)
         THEN LET caps == Descriptor(perms).can IN
              IF action \in DOMAIN caps THEN JsBool(caps[action]) ELSE JsBool(TRUE)
         ELSE JsBool(FALSE)

\* a plausible slip: the capability is tested with `action in perms.can`
canIfListed(user, action) ==
    IF ~user.present \/ ~Truthy(user.role) THEN JsBool(FALSE)
    ELSE LET perms == GetPerms(user.role) IN
         IF IsDescriptor(perms)
         THEN JsBool(action \in DOMAIN Descriptor(perms).can)
         ELSE JsBool(FALSE)

\* can(user, action)
\*   if (!user?.role) return false
\*   const perms = SCHOOL_PERMISSIONS[user.role] ?? PLATFORM_PERMISSIONS[user.role]
\*   return perms?.can?.[action] ?? false
\* perms.can is an object literal: perms.can[action] answers for its own keys
\* and for the names it inherits from Object.prototype; a builtin found in
\* place of a descriptor has no `can` property.
can(user, action) ==
    IF ~user.present \/ ~Truthy(user.role) THEN JsBool(FALSE)
    ELSE LET perms == GetPerms(user.role) IN
         IF IsDescriptor(perms)
         THEN LET caps == Descriptor(perms).can IN
              IF action \in DOMAIN caps THEN JsBool(caps[action])
              ELSE IF action \in ObjectPrototypeKeys THEN JsBuiltin(action)
              ELSE JsBool(FALSE)
         ELSE JsBool(FALSE)

\* a plausible slip: the fallback of an unrecognised role is the full menu
allowedNavFailOpen(role) ==
    LET perms == GetPerms(role) IN
    IF IsDescriptor(perms) THEN Descriptor(perms).nav
    ELSE SCHOOL_PERMISSIONS["school_admin"].nav

\* a plausible slip: the nav list is read from the table's first entry,
\* not from the role's own
allowedNavOfFirstEntry(role) ==
    LET perms == GetPerms(role) IN
    IF perms.kind = "school" THEN SCHOOL_PERMISSIONS["school_admin"].nav
    ELSE IF perms.kind = "platform" THEN PLATFORM_PERMISSIONS["platform_admin"].nav
    ELSE <<"dashboard">>

\* allowedNav(role)
\*   const perms = SCHOOL_PERMISSIONS[role] ?? PLATFORM_PERMISSIONS[role]
\*   return perms?.nav ?? ['dashboard']
allowedNav(role) ==
    LET perms == GetPerms(role) IN
    IF IsDescriptor(perms) THEN Descriptor(perms).nav ELSE <<"dashboard">>

\* what roleInfo can return, by the fields its callers read: a table entry
\* (kind "school" / "platform" and its key), the synthetic descriptor
\* ("fallback"), or the Object.prototype member found under the role name
\* ("builtin"), which has none of the three fields
EntryInfo(perms) ==
    [kind |-> perms.kind, key |-> perms.key,
     label |-> JsString(Descriptor(perms).label),
     description |-> JsString(Descriptor(perms).description),
     color |-> JsString(Descriptor(perms).color)]

\* { label: role, description: '', color: '#64748b' }
FallbackInfo(role) ==
    [kind |-> "fallback", key |-> "", label |-> role,
     description |-> JsString(""), color |-> JsString("#64748b")]

BuiltinInfo(k) ==
    [kind |-> "builtin", key |-> k, label |-> JsUndefined,
     description |-> JsUndefined, color |-> JsUndefined]

UndefinedInfo ==
    [kind |-> "undefined", key |-> "", label |-> JsUndefined,
     description |-> JsUndefined, color |-> JsUndefined]

\* a plausible slip: the lookup is returned without the ?? { ... } fallback
roleInfoNoFallback(role) ==
    LET perms == GetPerms(role) IN
    IF IsDescriptor(perms) THEN EntryInfo(perms)
    ELSE IF perms.kind = "builtin" THEN BuiltinInfo(perms.key)
    ELSE UndefinedInfo

\* roleInfo(role)
\*   return SCHOOL_PERMISSIONS[role] ?? PLATFORM_PERMISSIONS[role] ?? {
\*     label: role, description: '', color: '#64748b' }
roleInfo(role) ==
    LET perms == GetPerms(role) IN
    IF IsDescriptor(perms) THEN EntryInfo(perms)
    ELSE IF perms.kind = "builtin" THEN BuiltinInfo(perms.key)
    ELSE FallbackInfo(role)

\* a plausible slip: a label is added for a capability no role map carries
CAPABILITY_LABELS_Extra ==
    [ c \in DOMAIN SCHOOL_PERMISSIONS["school_admin"].can \cup {"export_reports"}
        |-> "label" ]

\* Users.jsx: const CAPABILITY_LABELS = { ... }, the rows of the role matrix
CAPABILITY_LABELS ==
    [ view_dashboard |-> "View Dashboard", view_students |-> "View Students",
      add_student |-> "Add Student", edit_student |-> "Edit Student",
      view_invoices |-> "View Invoices", generate_invoices |-> "Generate Invoices",
      record_cash |-> "Record Cash", record_transfer |-> "Record Transfer",
      approve_transfers |-> "Approve Transfers", view_debtors |-> "View Debtors",
      send_sms_blast |-> "Send SMS Blast", manage_fee_structure |-> "Manage Fees",
      manage_users |-> "Manage Staff", view_activity_logs |-> "Activity Logs",
      void_payment |-> "Void Payment" ]

\* Team.jsx: const PLATFORM_CAP_LABELS = { ... }
PLATFORM_CAP_LABELS ==
    [ view_all_schools |-> "View All Schools", activate_school |-> "Activate School",
      suspend_school |-> "Suspend School", view_revenue |-> "View Revenue",
      manage_subscriptions |-> "Manage Subscriptions", manage_team |-> "Manage Team",
      impersonate_school |-> "View School Data" ]

\* a cell of the role matrix: meta.can[cap]
MatrixCell(meta, cap) ==
    IF cap \in DOMAIN meta.can THEN JsBool(meta.can[cap])
    ELSE IF cap \in ObjectPrototypeKeys THEN JsBuiltin(cap)
    ELSE JsUndefined

-----------------------------------------------------------------------------
(* Inputs of the accessors                                                 *)

\* role strings a stored session or a caller can carry
RoleStrings ==
    SchoolRoles \cup PlatformRoles \cup
    {"", "SCHOOL_ADMIN", "parent", "constructor", "__proto__", "toString"}

RoleValues == {JsUndefined} \cup {JsString(r) : r \in RoleStrings}

Users == {NoUser} \cup {UserOf(r) : r \in RoleValues}

SchoolCapabilities   == DOMAIN SCHOOL_PERMISSIONS["school_admin"].can
PlatformCapabilities == DOMAIN PLATFORM_PERMISSIONS["platform_admin"].can

\* capability id strings a caller can pass
CapabilityStrings ==
    SchoolCapabilities \cup PlatformCapabilities \cup
    {"", "delete_school", "VIEW_STUDENTS", "constructor", "toString",
     "hasOwnProperty", "__proto__"}

\* a role that is a key of neither table
Unrecognised(role) ==
    PropertyKey(role) \notin (SchoolRoles \cup PlatformRoles)

-----------------------------------------------------------------------------
(* SpecPerm: the accessors applied to every drawn argument                 *)

PermIdle ==
    /\ pUser = NoUser
    /\ pAction = ""
    /\ canCalled = FALSE
    /\ canRet = JsUndefined
    /\ navCalled = FALSE
    /\ navRet = <<>>
    /\ infoCalled = FALSE
    /\ infoRet = UndefinedInfo

RouteIdle ==
    /\ authUser = NoUser
    /\ authLoading = TRUE
    /\ stored = [user |-> NoUser, token |-> FALSE]
    /\ location = "/"
    /\ rendered = [kind |-> "blank", target |-> ""]

NoInvoice == [loaded |-> FALSE, status |-> "", can_pay_online |-> FALSE]

PayIdle ==
    /\ pagePhase = "fresh"
    /\ urlParam = "none"
    /\ invoice = NoInvoice
    /\ loading = TRUE
    /\ error = FALSE
    /\ mode = "null"
    /\ screen = "main"
    /\ receipt = "null"
    /\ pollRef = FALSE
    /\ attempts = 0
    /\ fetchInFlight = FALSE
    /\ checksInFlight = 0
    /\ refreshInFlight = 0
    /\ refreshIssued = 0
    /\ procTimer = "none"
    /\ procInFlight = FALSE
    /\ signalled = FALSE

\* original API requests modelled in one session
MaxRequests == 2

Reqs == 1..MaxRequests

\* a request no caller has made yet
IdleRequest ==
    [phase |-> "idle", url |-> "data", retry |-> FALSE, awaits |-> 0,
     status |-> 0, refreshes |-> 0, replays |-> 0, handled |-> 0]

ApiIdle ==
    /\ apiReq = [r \in Reqs |-> IdleRequest]
    /\ refreshPromise = 0
    /\ pendingRefresh = {}
    /\ apiStore = [token |-> FALSE, refresh_token |-> FALSE, user |-> FALSE]
    /\ apiLocation = "app"

InitPerm ==
    /\ pUser \in Users
    /\ pAction \in CapabilityStrings
    /\ canCalled = FALSE
    /\ canRet = JsUndefined
    /\ navCalled = FALSE
    /\ navRet = <<>>
    /\ infoCalled = FALSE
    /\ infoRet = UndefinedInfo
    /\ RouteIdle
    /\ PayIdle
    /\ ApiIdle

CallCan ==
    /\ ~canCalled
    /\ canCalled' = TRUE
    /\ canRet' = can(pUser, pAction)
    /\ UNCHANGED <<pUser, pAction, navCalled, navRet, infoCalled, infoRet>>
    /\ UNCHANGED <<routeVars, payVars, apiVars>>

CallAllowedNav ==
    /\ ~navCalled
    /\ navCalled' = TRUE
    /\ navRet' = allowedNav(pUser.role)
    /\ UNCHANGED <<pUser, pAction, canCalled, canRet, infoCalled, infoRet>>
    /\ UNCHANGED <<routeVars, payVars, apiVars>>

CallRoleInfo ==
    /\ ~infoCalled
    /\ infoCalled' = TRUE
    /\ infoRet' = roleInfo(pUser.role)
    /\ UNCHANGED <<pUser, pAction, canCalled, canRet, navCalled, navRet>>
    /\ UNCHANGED <<routeVars, payVars, apiVars>>

NextPerm == CallCan \/ CallAllowedNav \/ CallRoleInfo

vars == <<permVars, routeVars, payVars, apiVars>>

SpecPerm == InitPerm /\ [][NextPerm]_vars

-----------------------------------------------------------------------------
(* School dashboard: App.jsx route table and guards, lib/auth.jsx          *)

Page(id)     == [kind |-> "page",     target |-> id]
Redirect(to) == [kind |-> "redirect", target |-> to]
Blank        == [kind |-> "blank",    target |-> ""]

\* a plausible slip: the guard waits for the session and forgets the login
ProtectedNoLogin(user, isLoading, page) ==
    IF isLoading THEN Blank ELSE Page(page)

\* function Protected({ children })
Protected(user, isLoading, page) ==
    IF isLoading THEN Blank
    ELSE IF ~user.present THEN Redirect("/login")
    ELSE Page(page)

\* a plausible slip: the guard checks the login only
RoleGuardLoginOnly(user, isLoading, routeId) ==
    IF isLoading THEN Blank
    ELSE IF ~user.present THEN Redirect("/login")
    ELSE Page(routeId)

\* a plausible slip: the guard sends a refused user to a guarded route
RoleGuardRedirectsToUsers(user, isLoading, routeId) ==
    IF isLoading THEN Blank
    ELSE IF ~user.present THEN Redirect("/login")
    ELSE IF ~Includes(allowedNav(user.role), routeId) THEN Redirect("/users")
    ELSE Page(routeId)

\* function RoleGuard({ routeId, children })
RoleGuard(user, isLoading, routeId) ==
    IF isLoading THEN Blank
    ELSE IF ~user.present THEN Redirect("/login")
    ELSE IF ~Includes(allowedNav(user.role), routeId) THEN Redirect("/dashboard")
    ELSE Page(routeId)

\* the <Route>s wrapped in <RoleGuard routeId=...>
GuardedRoute ==
    ("/students" :> "students") @@ ("/invoices" :> "invoices") @@
    ("/payments" :> "payments") @@ ("/debtors" :> "debtors") @@
    ("/approvals" :> "approvals") @@ ("/users" :> "users")

\* URLs a browser can be pointed at: every route of the table, the root and
\* one path only the wildcard matches
Paths == {"/login", "/pay/tok", "/dashboard", "/", "/settings"} \cup DOMAIN GuardedRoute

\* <Routes>: the element of the route matching the path
RouteElement(path, user, isLoading) ==
    CASE path = "/login"     -> Page("login")
      [] path = "/pay/tok"   -> Page("pay")
      [] path = "/dashboard" -> Protected(user, isLoading, "dashboard")
      [] path \in DOMAIN GuardedRoute -> RoleGuard(user, isLoading, GuardedRoute[path])
      [] OTHER               -> Redirect("/dashboard")

\* AppLayout: const ALL_NAV = [ { id: 'dashboard', ... }, ... ], by id
ALL_NAV ==
    <<"dashboard", "students", "invoices", "payments", "debtors", "approvals",
      "users">>

\* a plausible slip: the sidebar lists ALL_NAV without the filter
visibleNavUnfiltered(user) == ALL_NAV

\* const allowed = allowedNav(user?.role)
\* const visibleNav = ALL_NAV.filter(item => allowed.includes(item.id))
visibleNav(user) ==
    LET allowed == allowedNav(user.role)
        shown(id) == Includes(allowed, id)
    IN  SelectSeq(ALL_NAV, shown)

\* what the router shows after <Navigate> has been followed at most twice
\* from the given path, the session being restored
AfterTwoRedirects(path, user) ==
    LET hop(e) == IF e.kind = "redirect" THEN RouteElement(e.target, user, FALSE)
                  ELSE e
    IN  hop(hop(RouteElement(path, user, FALSE)))

\* pages rendered inside <AppLayout>, which carries the logout button
LayoutPages == {"dashboard"} \cup {GuardedRoute[p] : p \in DOMAIN GuardedRoute}

InitRoute ==
    /\ PermIdle
    /\ PayIdle
    /\ ApiIdle
    /\ authUser = NoUser
    /\ authLoading = TRUE
    /\ stored \in [user : Users, token : BOOLEAN]
    /\ location \in Paths
    /\ rendered = RouteElement(location, authUser, authLoading)

\* AuthProvider's mount effect: restore the session from localStorage
RestoreSession ==
    /\ authLoading
    /\ authUser' = IF stored.user.present /\ stored.token THEN stored.user ELSE authUser
    /\ authLoading' = FALSE
    /\ rendered' = RouteElement(location, authUser', FALSE)
    /\ UNCHANGED <<stored, location>>
    /\ UNCHANGED <<permVars, payVars, apiVars>>

\* <Navigate to=... replace />: the redirect the last render returned
FollowRedirect ==
    /\ rendered.kind = "redirect"
    /\ location' = rendered.target
    /\ rendered' = RouteElement(location', authUser, authLoading)
    /\ UNCHANGED <<authUser, authLoading, stored>>
    /\ UNCHANGED <<permVars, payVars, apiVars>>

\* Login page: await login(email, password); navigate('/dashboard')
Login(role) ==
    /\ rendered = Page("login")
    /\ ~authLoading
    /\ stored' = [user |-> UserOf(role), token |-> TRUE]
    /\ authUser' = UserOf(role)
    /\ location' = "/dashboard"
    /\ rendered' = RouteElement(location', authUser', authLoading)
    /\ UNCHANGED authLoading
    /\ UNCHANGED <<permVars, payVars, apiVars>>

\* AppLayout.handleLogout: logout(); navigate('/login')
Logout ==
    /\ rendered.kind = "page"
    /\ rendered.target \in LayoutPages
    /\ stored' = [user |-> NoUser, token |-> FALSE]
    /\ authUser' = NoUser
    /\ location' = "/login"
    /\ rendered' = RouteElement(location', authUser', authLoading)
    /\ UNCHANGED authLoading
    /\ UNCHANGED <<permVars, payVars, apiVars>>

\* a link click or history move inside the running app
GoTo(path) ==
    /\ rendered.kind = "page"
    /\ location' = path
    /\ rendered' = RouteElement(path, authUser, authLoading)
    /\ UNCHANGED <<authUser, authLoading, stored>>
    /\ UNCHANGED <<permVars, payVars, apiVars>>

\* a URL typed into the address bar: the app is loaded afresh
Reload(path) ==
    /\ rendered.kind # "redirect"
    /\ authUser' = NoUser
    /\ authLoading' = TRUE
    /\ location' = path
    /\ rendered' = RouteElement(path, authUser', authLoading')
    /\ UNCHANGED stored
    /\ UNCHANGED <<permVars, payVars, apiVars>>

NextRoute ==
    \/ RestoreSession
    \/ FollowRedirect
    \/ \E role \in RoleValues : Login(role)
    \/ Logout
    \/ \E path \in Paths : GoTo(path)
    \/ \E path \in Paths : Reload(path)

SpecRoute == InitRoute /\ [][NextRoute]_vars

-----------------------------------------------------------------------------
(* Super-admin app: its App.jsx route table and guards, its lib/auth.jsx   *)
(* and lib/api.js.  SpecAdmin uses the router variables of SpecRoute:      *)
(* authUser is AuthProvider's `admin` state, stored is sp_admin_user and   *)
(* sp_admin_token.  The token is kept by the role of the account the       *)
(* server issued it to ("none": no token); the client cannot read it.      *)

\* <AuthContext.Provider value={{ admin, login, logout, loading }}>
AdminContext(adminState, isLoading) ==
    [admin |-> adminState, loading |-> isLoading]

\* const { user, loading } = useAuth(): a property the context value does
\* not have is undefined
ContextUser(ctx) == IF "user" \in DOMAIN ctx THEN ctx.user ELSE NoUser

\* const userData = { name: admin_name, email: admin_email }
AdminUserData == UserOf(JsUndefined)

\* the <Route>s wrapped in <RoleGuard routeId=...>
AdminGuardedRoute ==
    ("/schools" :> "schools") @@ ("/subscriptions" :> "subscriptions") @@
    ("/revenue" :> "revenue") @@ ("/team" :> "team")

AdminPaths == {"/login", "/dashboard", "/", "/settings"} \cup DOMAIN AdminGuardedRoute

\* <Routes> of the super-admin app; its Protected and RoleGuard are the
\* school dashboard's, line for line
AdminRouteElement(path, ctx) ==
    CASE path = "/login"     -> Page("login")
      [] path = "/dashboard" -> Protected(ContextUser(ctx), ctx.loading, "dashboard")
      [] path \in DOMAIN AdminGuardedRoute ->
             RoleGuard(ContextUser(ctx), ctx.loading, AdminGuardedRoute[path])
      [] OTHER               -> Redirect("/dashboard")

AdminTokens == {"none"} \cup PlatformRoles

\* the same for the super-admin router
AdminAfterTwoRedirects(path, ctx) ==
    LET hop(e) == IF e.kind = "redirect" THEN AdminRouteElement(e.target, ctx)
                  ELSE e
    IN  hop(hop(AdminRouteElement(path, ctx)))

InitAdmin ==
    /\ PermIdle
    /\ PayIdle
    /\ ApiIdle
    /\ authUser = NoUser
    /\ authLoading = TRUE
    /\ stored \in [user : Users, token : AdminTokens]
    /\ location \in AdminPaths
    /\ rendered = AdminRouteElement(location, AdminContext(authUser, authLoading))

\* AuthProvider's mount effect
\*   if (stored && token) setAdmin(JSON.parse(stored)); setLoading(false)
AdminRestoreSession ==
    /\ authLoading
    /\ authUser' = IF stored.user.present /\ stored.token # "none"
                   THEN stored.user ELSE authUser
    /\ authLoading' = FALSE
    /\ rendered' = AdminRouteElement(location, AdminContext(authUser', FALSE))
    /\ UNCHANGED <<stored, location>>
    /\ UNCHANGED <<permVars, payVars, apiVars>>

\* <Navigate to=... replace />
AdminFollowRedirect ==
    /\ rendered.kind = "redirect"
    /\ location' = rendered.target
    /\ rendered' = AdminRouteElement(location', AdminContext(authUser, authLoading))
    /\ UNCHANGED <<authUser, authLoading, stored>>
    /\ UNCHANGED <<permVars, payVars, apiVars>>

\* Login page: await login(email, password); navigate('/dashboard'), the
\* credentials being those of an account of the given role
AdminLogin(role) ==
    /\ rendered = Page("login")
    /\ ~authLoading
    /\ stored' = [user |-> AdminUserData, token |-> role]
    /\ authUser' = AdminUserData
    /\ location' = "/dashboard"
    /\ rendered' = AdminRouteElement(location', AdminContext(authUser', authLoading))
    /\ UNCHANGED authLoading
    /\ UNCHANGED <<permVars, payVars, apiVars>>

\* the login request is answered 401: the response interceptor removes
\* both storage items and sets window.location.href = '/login'
AdminLoginRejected ==
    /\ rendered = Page("login")
    /\ ~authLoading
    /\ stored' = [user |-> NoUser, token |-> "none"]
    /\ authUser' = NoUser
    /\ authLoading' = TRUE
    /\ location' = "/login"
    /\ rendered' = AdminRouteElement(location', AdminContext(authUser', authLoading'))
    /\ UNCHANGED <<permVars, payVars, apiVars>>

\* a history move inside the running app
AdminGoTo(path) ==
    /\ rendered.kind = "page"
    /\ location' = path
    /\ rendered' = AdminRouteElement(path, AdminContext(authUser, authLoading))
    /\ UNCHANGED <<authUser, authLoading, stored>>
    /\ UNCHANGED <<permVars, payVars, apiVars>>

\* a URL typed into the address bar: the app is loaded afresh
AdminReload(path) ==
    /\ rendered.kind # "redirect"
    /\ authUser' = NoUser
    /\ authLoading' = TRUE
    /\ location' = path
    /\ rendered' = AdminRouteElement(path, AdminContext(authUser', authLoading'))
    /\ UNCHANGED stored
    /\ UNCHANGED <<permVars, payVars, apiVars>>

NextAdmin ==
    \/ AdminRestoreSession
    \/ AdminFollowRedirect
    \/ \E role \in PlatformRoles : AdminLogin(role)
    \/ AdminLoginRejected
    \/ \E path \in AdminPaths : AdminGoTo(path)
    \/ \E path \in AdminPaths : AdminReload(path)

SpecAdmin == InitAdmin /\ [][NextAdmin]_vars

\* the session is restored and belongs to an account of the given role
AdminLoggedInAs(role) ==
    ~authLoading /\ authUser.present /\ stored.token = role

-----------------------------------------------------------------------------
(* Public payment page: pages/PayPage.jsx                                  *)
(*                                                                         *)
(* PayPage keeps the flow state; when it renders the processing screen it  *)
(* mounts ProcessingScreen, which has a confirmation logic of its own and  *)
(* reports through the onSuccess / onFailed callbacks.  Timers fire and    *)
(* responses arrive in any order.  After PayPage is unmounted React drops  *)
(* its state, so a late setState changes nothing, but the callbacks and    *)
(* the requests they make still run.  The PaystackForm and TransferForm    *)
(* submissions keep their own state and do not touch the flow state; they  *)
(* are not part of the model.                                              *)

\* const maxAttempts = 20
maxAttempts == 20

\* status requests of startPolling modelled as outstanding at once
MaxInFlight == 2

Mounted == pagePhase = "mounted"

\* GET /pay/{token}: the invoice snapshots the flow distinguishes
Invoices ==
    [loaded : {TRUE}, status : {"paid", "unpaid"}, can_pay_online : BOOLEAN]

\* GET /pay/{token}/status?reference=: { payment, invoice_status }, or a
\* rejected request; payment is null or carries its status
StatusResponses ==
    [ok : {TRUE}, payment : {"null", "success", "pending"},
     invoice_status : {"paid", "unpaid"}]
    \cup {[ok |-> FALSE, payment |-> "null", invoice_status |-> "unpaid"]}

\* payment?.status === 'success' || invoice_status === 'paid'
Settled(resp) ==
    resp.ok /\ (resp.payment = "success" \/ resp.invoice_status = "paid")

\* ProcessingScreen's GET /pay/{token}/status: res.data.is_paid, or a
\* rejected request
ProcResponses == {"is_paid", "not_paid", "error"}

\* a plausible slip: the screen tag is consulted before the error message
RenderScreenFirst(ld, err, scr, inv) ==
    IF ld THEN "loading"
    ELSE IF scr = "processing" THEN "processing"
    ELSE IF scr = "success" THEN "success"
    ELSE IF scr = "failed" THEN "failed"
    ELSE IF err THEN "error"
    ELSE IF inv.loaded /\ inv.status = "paid" THEN "already-paid"
    ELSE "main"

\* PayPage's render: which screen the returned tree shows
Render(ld, err, scr, inv) ==
    IF ld THEN "loading"
    ELSE IF err THEN "error"
    ELSE IF scr = "processing" THEN "processing"
    ELSE IF scr = "success" THEN "success"
    ELSE IF scr = "failed" THEN "failed"
    ELSE IF inv.loaded /\ inv.status = "paid" THEN "already-paid"
    ELSE "main"

\* what the page shows; nothing once it is unmounted
View == IF Mounted THEN Render(loading, error, screen, invoice) ELSE "none"

\* the redirect parameters the mount effect reads, each carrying a value
RedirectParams == {"reference", "trxref", "ref"}

\* a plausible slip: only an undefined reference is taken as absent, and
\* URLSearchParams.get answers null
HasRefUnlessUndefined(url) == TRUE

\* const ref = params.get('reference') || params.get('trxref') || params.get('ref')
\* if (!ref) return
\* get() answers null for an absent parameter and '' for one without a
\* value; both are falsy.
HasRef(url) == url \in RedirectParams

\* a plausible slip: the state is replaced under the current href
ReplaceStateKeepsQuery(url) == url

\* window.history.replaceState({}, '', window.location.pathname): the query
\* of the visible URL afterwards
ReplaceState(url) == "none"

\* ProcessingScreen's mount effect, run when a render first shows the
\* processing screen.  It looks for reference / trxref in the URL; finding
\* none it arms the 4 s timeout.  (PayPage has removed the query from the
\* URL before ProcessingScreen can mount - ProcEffectSeesNoRef - so the
\* effect's own polling branch is never taken.)  ProcessingScreen's cleanup
\* clears its two intervals and leaves the timeout armed.
ProcEffect(before, after, url, timer) ==
    IF before # "processing" /\ after = "processing" /\ url \notin {"reference", "trxref"}
    THEN "pending"
    ELSE timer

InitPay ==
    /\ PermIdle
    /\ RouteIdle
    /\ ApiIdle
    /\ pagePhase = "fresh"
    /\ urlParam \in {"none", "empty"} \cup RedirectParams
    /\ invoice = NoInvoice
    /\ loading = TRUE
    /\ error = FALSE
    /\ mode = "null"
    /\ screen = "main"
    /\ receipt = "null"
    /\ pollRef = FALSE
    /\ attempts = 0
    /\ fetchInFlight = FALSE
    /\ checksInFlight = 0
    /\ refreshInFlight = 0
    /\ refreshIssued = 0
    /\ procTimer = "none"
    /\ procInFlight = FALSE
    /\ signalled = FALSE

\* First render and the mount effects, in order: the invoice fetch is
\* issued; if the URL carries a reference / trxref / ref value the query is removed,
\* screen becomes processing and startPolling(ref) runs: clearPolling(),
\* attempts = 0, the immediate check() (attempts++ and its request), then
\* setInterval(check, 3000).
Mount ==
    /\ pagePhase = "fresh"
    /\ pagePhase' = "mounted"
    /\ fetchInFlight' = TRUE
    /\ IF HasRef(urlParam)
       THEN /\ urlParam' = ReplaceState(urlParam)
            /\ screen' = "processing"
            /\ attempts' = 1
            /\ checksInFlight' = 1
            /\ pollRef' = TRUE
       ELSE UNCHANGED <<urlParam, screen, attempts, checksInFlight, pollRef>>
    /\ UNCHANGED <<invoice, loading, error, mode, receipt, refreshInFlight,
                   refreshIssued, procInFlight, signalled>>
    /\ procTimer' = ProcEffect(View, View', urlParam', procTimer)
    /\ UNCHANGED <<permVars, routeVars, apiVars>>

\* .then(res => setInvoice(res.data)) .finally(() => setLoading(false))
InvoiceLoaded(inv) ==
    /\ fetchInFlight
    /\ fetchInFlight' = FALSE
    /\ invoice' = IF Mounted THEN inv ELSE invoice
    /\ loading' = IF Mounted THEN FALSE ELSE loading
    /\ UNCHANGED <<pagePhase, urlParam, error, mode, screen, receipt, pollRef,
                   attempts, checksInFlight, refreshInFlight, refreshIssued,
                   procInFlight, signalled>>
    /\ procTimer' = ProcEffect(View, View', urlParam', procTimer)
    /\ UNCHANGED <<permVars, routeVars, apiVars>>

\* .catch(() => setError(...)) .finally(() => setLoading(false))
InvoiceFailed ==
    /\ fetchInFlight
    /\ fetchInFlight' = FALSE
    /\ error' = IF Mounted THEN TRUE ELSE error
    /\ loading' = IF Mounted THEN FALSE ELSE loading
    /\ UNCHANGED <<pagePhase, urlParam, invoice, mode, screen, receipt, pollRef,
                   attempts, checksInFlight, refreshInFlight, refreshIssued,
                   procInFlight, signalled>>
    /\ procTimer' = ProcEffect(View, View', urlParam', procTimer)
    /\ UNCHANGED <<permVars, routeVars, apiVars>>

\* a plausible slip: check() forgets attempts++
PollTickNoCount ==
    /\ pollRef
    /\ checksInFlight < MaxInFlight
    /\ checksInFlight' = checksInFlight + 1
    /\ UNCHANGED <<pagePhase, urlParam, payState, pollRef, attempts, fetchInFlight,
                   refreshInFlight, refreshIssued, procTimer, procInFlight,
                   signalled>>
    /\ UNCHANGED <<permVars, routeVars, apiVars>>

\* the interval fires: check() up to its await (attempts++, the request)
PollTick ==
    /\ pollRef
    /\ checksInFlight < MaxInFlight
    /\ attempts' = attempts + 1
    /\ checksInFlight' = checksInFlight + 1
    /\ UNCHANGED <<pagePhase, urlParam, payState, pollRef, fetchInFlight,
                   refreshInFlight, refreshIssued, procTimer, procInFlight,
                   signalled>>
    /\ UNCHANGED <<permVars, routeVars, apiVars>>

\* check() after its await: the answer of one status request
CheckResponse(resp) ==
    /\ checksInFlight > 0
    /\ checksInFlight' = checksInFlight - 1
    /\ IF Settled(resp)
       THEN /\ pollRef' = FALSE
            /\ receipt' = IF Mounted THEN resp.payment ELSE receipt
            /\ screen' = IF Mounted THEN "success" ELSE screen
            /\ refreshInFlight' = refreshInFlight + 1
            /\ refreshIssued' = refreshIssued + 1
            /\ signalled' = TRUE
       ELSE /\ IF attempts >= maxAttempts
               THEN /\ pollRef' = FALSE
                    /\ screen' = IF Mounted THEN "failed" ELSE screen
               ELSE UNCHANGED <<pollRef, screen>>
            /\ UNCHANGED <<receipt, refreshInFlight, refreshIssued, signalled>>
    /\ UNCHANGED <<pagePhase, urlParam, invoice, loading, error, mode, attempts,
                   fetchInFlight, procInFlight>>
    /\ procTimer' = ProcEffect(View, View', urlParam', procTimer)
    /\ UNCHANGED <<permVars, routeVars, apiVars>>

\* pubApi.get(`/pay/${token}`).then(r => setInvoice(r.data))
RefreshLoaded(inv) ==
    /\ refreshInFlight > 0
    /\ refreshInFlight' = refreshInFlight - 1
    /\ invoice' = IF Mounted THEN inv ELSE invoice
    /\ UNCHANGED <<pagePhase, urlParam, loading, error, mode, screen, receipt,
                   pollRef, attempts, fetchInFlight, checksInFlight,
                   refreshIssued, procInFlight, signalled>>
    /\ procTimer' = ProcEffect(View, View', urlParam', procTimer)
    /\ UNCHANGED <<permVars, routeVars, apiVars>>

\* ... .catch(() => {})
RefreshFailed ==
    /\ refreshInFlight > 0
    /\ refreshInFlight' = refreshInFlight - 1
    /\ UNCHANGED <<pagePhase, urlParam, payState, pollRef, attempts,
                   fetchInFlight, checksInFlight, refreshIssued, procTimer,
                   procInFlight, signalled>>
    /\ UNCHANGED <<permVars, routeVars, apiVars>>

\* ProcessingScreen's setTimeout callback up to its await: the request
ProcTimeout ==
    /\ procTimer = "pending"
    /\ procTimer' = "fired"
    /\ procInFlight' = TRUE
    /\ UNCHANGED <<pagePhase, urlParam, payState, pollRef, attempts,
                   fetchInFlight, checksInFlight, refreshInFlight,
                   refreshIssued, signalled>>
    /\ UNCHANGED <<permVars, routeVars, apiVars>>

\* the callback after its await: is_paid -> onSuccess(null), that is
\* setReceipt(null); setScreen('success'); anything else -> onFailed(), that
\* is setScreen('failed')
ProcResponse(r) ==
    /\ procInFlight
    /\ procInFlight' = FALSE
    /\ IF r = "is_paid"
       THEN /\ receipt' = IF Mounted THEN "null" ELSE receipt
            /\ screen' = IF Mounted THEN "success" ELSE screen
            /\ signalled' = TRUE
       ELSE /\ screen' = IF Mounted THEN "failed" ELSE screen
            /\ UNCHANGED <<receipt, signalled>>
    /\ UNCHANGED <<pagePhase, urlParam, invoice, loading, error, mode, pollRef,
                   attempts, fetchInFlight, checksInFlight, refreshInFlight,
                   refreshIssued>>
    /\ procTimer' = ProcEffect(View, View', urlParam', procTimer)
    /\ UNCHANGED <<permVars, routeVars, apiVars>>

\* a MethodCard is clicked: setMode('paystack') / setMode('transfer')
SelectMode(m) ==
    /\ View = "main"
    /\ mode = "null"
    /\ invoice.loaded /\ invoice.can_pay_online
    /\ mode' = m
    /\ UNCHANGED <<pagePhase, urlParam, invoice, loading, error, screen, receipt,
                   pollRef, attempts, fetchInFlight, checksInFlight,
                   refreshInFlight, refreshIssued, procTimer, procInFlight,
                   signalled>>
    /\ UNCHANGED <<permVars, routeVars, apiVars>>

\* a form's onBack: setMode(null)
Back ==
    /\ View = "main"
    /\ mode # "null"
    /\ mode' = "null"
    /\ UNCHANGED <<pagePhase, urlParam, invoice, loading, error, screen, receipt,
                   pollRef, attempts, fetchInFlight, checksInFlight,
                   refreshInFlight, refreshIssued, procTimer, procInFlight,
                   signalled>>
    /\ UNCHANGED <<permVars, routeVars, apiVars>>

\* FailedScreen's onRetry: setScreen('main'); setMode(null)
Retry ==
    /\ View = "failed"
    /\ screen' = "main"
    /\ mode' = "null"
    /\ UNCHANGED <<pagePhase, urlParam, invoice, loading, error, receipt,
                   pollRef, attempts, fetchInFlight, checksInFlight,
                   refreshInFlight, refreshIssued, procInFlight, signalled>>
    /\ procTimer' = ProcEffect(View, View', urlParam', procTimer)
    /\ UNCHANGED <<permVars, routeVars, apiVars>>

\* the page is left: PayPage's cleanup runs clearPolling(); ProcessingScreen's
\* cleanup (if it was mounted) clears its intervals
Unmount ==
    /\ Mounted
    /\ pagePhase' = "unmounted"
    /\ pollRef' = FALSE
    /\ UNCHANGED <<urlParam, payState, attempts, fetchInFlight, checksInFlight,
                   refreshInFlight, refreshIssued, procTimer, procInFlight,
                   signalled>>
    /\ UNCHANGED <<permVars, routeVars, apiVars>>

NextPay ==
    \/ Mount
    \/ \E inv \in Invoices : InvoiceLoaded(inv)
    \/ InvoiceFailed
    \/ PollTick
    \/ \E resp \in StatusResponses : CheckResponse(resp)
    \/ \E inv \in Invoices : RefreshLoaded(inv)
    \/ RefreshFailed
    \/ ProcTimeout
    \/ \E r \in ProcResponses : ProcResponse(r)
    \/ \E m \in {"paystack", "transfer"} : SelectMode(m)
    \/ Back
    \/ Retry
    \/ Unmount

SpecPay == InitPay /\ [][NextPay]_vars

\* SpecPay with its timers and requests kept going: an interval that is
\* scheduled fires, an armed timeout fires, and a status request that was
\* issued is answered or rejected.  The invoice fetch and the refresh may
\* stay unanswered.
SpecPayLive ==
    /\ InitPay
    /\ [][NextPay]_vars
    /\ WF_vars(PollTick)
    /\ WF_vars(\E resp \in StatusResponses : CheckResponse(resp))
    /\ WF_vars(ProcTimeout)
    /\ WF_vars(\E r \in ProcResponses : ProcResponse(r))

\* status-check requests issued so far, by startPolling and by ProcessingScreen
StatusIssued == attempts + (IF procTimer = "fired" THEN 1 ELSE 0)

\* network requests of any kind issued so far
NetIssued ==
    (IF pagePhase = "fresh" THEN 0 ELSE 1) + StatusIssued + refreshIssued

\* ProcessingScreen never mounts on a URL that still carries the reference
ProcEffectSeesNoRef == (View = "processing") => urlParam \notin {"reference", "trxref"}

-----------------------------------------------------------------------------
(* lib/api.js of the school dashboard and of the super-admin app: the      *)
(* response interceptor.  The two files differ in the endpoint and storage *)
(* key names only.  A response is handled in a task of its own: the error  *)
(* handler runs up to its await without interruption, and when the refresh *)
(* request settles the continuations of all handlers awaiting that promise *)
(* run one after the other before any other response is handled.  The      *)
(* refresh is posted with the bare axios, so the interceptor does not see  *)
(* its answer.                                                             *)

\* endpoint classes: url.includes('/auth/login'), url.includes('/auth/refresh')
ApiUrls == {"data", "login", "refresh"}

\* HTTP answers the handler distinguishes
ApiStatuses == {200, 401, 500}

\* the refresh request is rejected, or answers without / with an
\* access_token; "token_full" also carries refresh_token and user
RefreshOutcomes == {"error", "no_token", "token", "token_full"}

\* a plausible slip: the _retry mark is not consulted
ShouldRefreshIgnoresRetry(status, retry, url) ==
    status = 401 /\ url \notin {"login", "refresh"}

\* status === 401 && !original._retry && !url.includes('/auth/login')
\*   && !url.includes('/auth/refresh')
ShouldRefresh(status, retry, url) ==
    status = 401 /\ ~retry /\ url \notin {"login", "refresh"}

\* a plausible slip: every handler posts a refresh of its own
PromiseToAwaitOwn(current, r) == r

\* if (!refreshPromise) refreshPromise = axios.post(...); await refreshPromise
PromiseToAwait(current, r) == IF current = 0 THEN r ELSE current

\* a plausible slip: only the token is removed
LoggedOutStoreKeepsUser(store) == [store EXCEPT !.token = FALSE]

\* localStorage.removeItem of sp_token, sp_refresh_token and sp_user
LoggedOutStore(store) ==
    [token |-> FALSE, refresh_token |-> FALSE, user |-> FALSE]

\* localStorage.setItem after a refresh that answered with an access_token
RefreshedStore(store, outcome) ==
    [token |-> TRUE,
     refresh_token |-> store.refresh_token \/ outcome = "token_full",
     user |-> store.user \/ outcome = "token_full"]

InitApi ==
    /\ PermIdle
    /\ RouteIdle
    /\ PayIdle
    /\ apiReq = [r \in Reqs |-> IdleRequest]
    /\ refreshPromise = 0
    /\ pendingRefresh = {}
    /\ apiStore \in [token : BOOLEAN, refresh_token : BOOLEAN, user : BOOLEAN]
    /\ apiLocation = "app"

\* a caller issues api.get / api.post
ApiSend(r, url) ==
    /\ apiReq[r].phase = "idle"
    /\ apiReq' = [apiReq EXCEPT ![r].phase = "sent", ![r].url = url]
    /\ UNCHANGED <<refreshPromise, pendingRefresh, apiStore, apiLocation>>
    /\ UNCHANGED <<permVars, routeVars, payVars>>

\* the answer to a request or to its replay arrives.  (res) => res resolves
\* the caller; the error handler runs up to its await or to its end.
ApiRespond(r, status) ==
    LET q == apiReq[r] IN
    /\ q.phase = "sent"
    /\ IF status = 200
       THEN /\ apiReq' = [apiReq EXCEPT ![r].phase = "resolved", ![r].status = status]
            /\ UNCHANGED <<refreshPromise, pendingRefresh, apiStore, apiLocation>>
       ELSE IF ShouldRefresh(status, q.retry, q.url) /\ apiStore.refresh_token
       THEN LET promise == PromiseToAwait(refreshPromise, r) IN
            /\ refreshPromise' = promise
            /\ pendingRefresh' = pendingRefresh \cup {promise}
            /\ apiReq' = [apiReq EXCEPT ![r].phase = "waiting", ![r].retry = TRUE,
                                        ![r].status = status, ![r].awaits = promise,
                                        ![r].refreshes = q.refreshes + 1,
                                        ![r].handled = q.handled + 1]
            /\ UNCHANGED <<apiStore, apiLocation>>
       ELSE /\ apiReq' = [apiReq EXCEPT ![r].phase = "rejected",
                                        ![r].retry = q.retry \/ ShouldRefresh(status, q.retry, q.url),
                                        ![r].status = status,
                                        ![r].handled = q.handled + 1]
            /\ apiStore' = IF status = 401 THEN LoggedOutStore(apiStore) ELSE apiStore
            /\ apiLocation' = IF status = 401 THEN "/login" ELSE apiLocation
            /\ UNCHANGED <<refreshPromise, pendingRefresh>>
    /\ UNCHANGED <<permVars, routeVars, payVars>>

\* the refresh request settles: every handler awaiting it continues.  With
\* an access_token it stores the tokens and replays its request; otherwise
\* it falls through to the forced logout.  finally: refreshPromise = null.
RefreshSettles(p, outcome) ==
    LET waiters == {r \in Reqs : apiReq[r].phase = "waiting" /\ apiReq[r].awaits = p}
        ok == outcome \in {"token", "token_full"}
    IN
    /\ p \in pendingRefresh
    /\ pendingRefresh' = pendingRefresh \ {p}
    /\ refreshPromise' = 0
    /\ apiReq' = [r \in Reqs |->
                    IF r \notin waiters THEN apiReq[r]
                    ELSE IF ok
                    THEN [apiReq[r] EXCEPT !.phase = "sent", !.awaits = 0,
                                           !.status = 0,
                                           !.replays = apiReq[r].replays + 1]
                    ELSE [apiReq[r] EXCEPT !.phase = "rejected", !.awaits = 0]]
    /\ apiStore' = IF ok THEN RefreshedStore(apiStore, outcome)
                   ELSE LoggedOutStore(apiStore)
    /\ apiLocation' = IF ok THEN apiLocation ELSE "/login"
    /\ UNCHANGED <<permVars, routeVars, payVars>>

NextApi ==
    \/ \E r \in Reqs, url \in ApiUrls : ApiSend(r, url)
    \/ \E r \in Reqs, status \in ApiStatuses : ApiRespond(r, status)
    \/ \E p \in Reqs, outcome \in RefreshOutcomes : RefreshSettles(p, outcome)

SpecApi == InitApi /\ [][NextApi]_vars

-----------------------------------------------------------------------------
(* C1: can(user, capability) returns false, and raises nothing, whenever   *)
(* the user is absent, has no role, has a role in neither table, or has a  *)
(* recognised role whose capability map has no entry for the capability    *)
(* id - for every role string and every capability id string.              *)
C1_DeniedByDefault ==
    canCalled =>
        ( ( \/ ~pUser.present
            \/ pUser.role.t = "undefined"
            \/ Unrecognised(pUser.role)
            \/ pAction \notin DOMAIN Descriptor(GetPerms(pUser.role)).can )
          => canRet = JsBool(FALSE) )

(* C2: opened with a provider reference, with a status endpoint that never *)
(* signals settlement, the flow enters failed only when exactly 20         *)
(* status-check requests have been issued, and no status-check request is  *)
(* issued once failed has been entered.                                    *)
C2_FailedAfterTwentyChecks ==
    [][ ~signalled' =>
          /\ (screen # "failed" /\ screen' = "failed") => StatusIssued' = maxAttempts
          /\ screen = "failed" => StatusIssued' = StatusIssued ]_vars

(* C3: when a status check of the polling session is answered with a       *)
(* settlement signal, the flow enters success as that answer is processed, *)
(* and no status-check request is issued from then on.                     *)
C3_SettlementStopsChecks ==
    [][ /\ (Mounted /\ refreshIssued' > refreshIssued) => screen' = "success"
        /\ refreshIssued > 0 => StatusIssued' = StatusIssued ]_vars

(* C4: success is terminal: once screen is success no timer callback,      *)
(* status answer or child callback changes it.                             *)
C4_SuccessTerminal ==
    [][ screen = "success" => screen' = "success" ]_vars

(* C5: for a logged-in user on a role-guarded route the guard renders the  *)
(* page exactly when the route id is in allowedNav(user.role) and          *)
(* otherwise redirects to /dashboard; a guarded page is never rendered     *)
(* without that; a teacher never gets the approvals page.                  *)
C5_RoleGuardFollowsNav ==
    /\ (authUser.present /\ location \in DOMAIN GuardedRoute) =>
          rendered = IF Includes(allowedNav(authUser.role), GuardedRoute[location])
                     THEN Page(GuardedRoute[location])
                     ELSE Redirect("/dashboard")
    /\ \A p \in DOMAIN GuardedRoute :
          rendered = Page(GuardedRoute[p]) =>
             /\ authUser.present
             /\ Includes(allowedNav(authUser.role), GuardedRoute[p])
    /\ rendered = Page("approvals") => authUser.role # JsString("teacher")

\* a logged-in teacher has typed /approvals and is being sent to /dashboard
C5_Witness ==
    /\ authUser = UserOf(JsString("teacher"))
    /\ location = "/approvals"
    /\ rendered = Redirect("/dashboard")

(* C6: for every role value that is a key of neither table (undefined and  *)
(* the empty string included) allowedNav returns exactly <<dashboard>>.    *)
C6_UnknownRoleNav ==
    (navCalled /\ Unrecognised(pUser.role)) => navRet = <<"dashboard">>

\* allowedNav has answered for a role name inherited from Object.prototype
C6_Witness ==
    /\ navCalled
    /\ pUser.role = JsString("constructor")
    /\ navRet = <<"dashboard">>

(* C7: after PayPage is unmounted while the flow is in processing, no      *)
(* network request of any kind is issued.                                  *)
C7_NoRequestAfterUnmount ==
    [][ (pagePhase = "unmounted" /\ screen = "processing")
            => NetIssued' = NetIssued ]_vars

(* C8: the only way out of failed is the user's retry, which leads to main *)
(* with no payment method selected; no timer callback or status answer     *)
(* moves the flow out of failed.                                           *)
C8_FailedLeftOnlyByRetry ==
    [][ (screen = "failed" /\ screen' # "failed")
            => (View = "failed" /\ screen' = "main" /\ mode' = "null") ]_vars

(* C9: mounted on a URL with reference / trxref / ref, the flow enters     *)
(* processing at once and the page shows processing, also while the        *)
(* invoice fetch is pending and after it has failed.                       *)
C9_ProcessingShownOnMount ==
    [][ /\ (pagePhase = "fresh" /\ urlParam \in RedirectParams /\ pagePhase' = "mounted")
              => (screen' = "processing" /\ View' = "processing")
        /\ (Mounted' /\ screen' = "processing" /\ (fetchInFlight' \/ error'))
              => View' = "processing" ]_vars

(* C10: once the invoice fetch has failed the page shows error and keeps   *)
(* showing it for the rest of the session: no status answer, timer         *)
(* callback or user action of the page changes what is shown, and neither  *)
(* a retry nor a payment method can be chosen.                             *)
C10_ErrorIsTerminal ==
    [][ /\ (Mounted' /\ error') => View' = "error"
        /\ (Mounted /\ error /\ Mounted') => (error' /\ mode' = mode) ]_vars

\* the error page is shown although the polling underneath it has been
\* answered with a settlement
C10_Witness ==
    /\ Mounted
    /\ error
    /\ View = "error"
    /\ screen = "success"

(* C11: mounted on a URL that carries a reference, trxref or ref parameter *)
(* with a value, the page leaves no query string in the visible URL once   *)
(* the mount effect has run, and the URL stays without one for the rest of *)
(* the session, whether the flow ends in success, failed or error.         *)
C11_RefQueryStripped ==
    [][ /\ (pagePhase = "fresh" /\ urlParam \in RedirectParams /\ pagePhase' = "mounted")
              => urlParam' = "none"
        /\ pagePhase # "fresh" => urlParam' = urlParam ]_vars

\* C11 as stated: any URL containing one of the three parameters, a
\* parameter without a value included, shows no query once mounted
C11_AnyRefQueryStripped ==
    pagePhase # "fresh" => urlParam = "none"

\* the page came with a reference, the polling has run to failed, and the
\* visible URL has no query
C11_Witness ==
    /\ Mounted
    /\ attempts >= maxAttempts
    /\ screen = "failed"
    /\ urlParam = "none"

(* C12: mounted on a URL without a redirect parameter, the page issues no  *)
(* status-check request at any time of the session, and once the invoice   *)
(* fetch has answered with a paid invoice it shows already-paid.           *)
C12_PaidInvoiceNoChecks ==
    [][ /\ (pagePhase = "fresh" /\ urlParam = "none" /\ pagePhase' = "mounted")
              => StatusIssued' = 0
        /\ (pagePhase # "fresh" /\ StatusIssued = 0) => StatusIssued' = 0
        /\ (Mounted' /\ StatusIssued' = 0 /\ ~loading'
               /\ invoice'.loaded /\ invoice'.status = "paid")
              => View' = "already-paid" ]_vars

\* the page came without a reference, the fetched invoice is paid, the
\* already-paid screen is shown and no status check has been issued
C12_Witness ==
    /\ Mounted
    /\ ~fetchInFlight
    /\ invoice.loaded /\ invoice.status = "paid"
    /\ View = "already-paid"
    /\ StatusIssued = 0

(* C13: while the page stays mounted, the timers keep firing and every     *)
(* status request that was issued is answered or rejected, a flow that is  *)
(* in processing reaches success or failed.                                *)
C13_ProcessingEnds ==
    (Mounted /\ screen = "processing")
        ~> (screen \in {"success", "failed"} \/ ~Mounted)

\* the polling of startPolling alone has ended the flow, at its last attempt
C13_Witness ==
    /\ Mounted
    /\ screen = "failed"
    /\ attempts = maxAttempts
    /\ procTimer = "none"
    /\ ~signalled

(* C14: for every role of either table and every capability id that is a  *)
(* key of that role's capability map, can returns exactly the boolean the  *)
(* table stores; only school_admin has manage_users, void_payment,         *)
(* generate_invoices and manage_fee_structure; teacher and accountant have *)
(* record_cash, record_transfer and approve_transfers all false;           *)
(* platform_support has no capability other than view_all_schools.         *)
C14_CanFollowsTable ==
    (canCalled /\ pUser.present /\ pUser.role.t = "string"
       /\ pUser.role.s \in SchoolRoles \cup PlatformRoles) =>
      LET r == pUser.role.s
          caps == IF r \in SchoolRoles THEN SCHOOL_PERMISSIONS[r].can
                  ELSE PLATFORM_PERMISSIONS[r].can
      IN  pAction \in DOMAIN caps =>
            /\ canRet = JsBool(caps[pAction])
            /\ pAction \in {"manage_users", "void_payment", "generate_invoices",
                            "manage_fee_structure"}
                  => (canRet = JsBool(TRUE) <=> r = "school_admin")
            /\ (r \in {"teacher", "accountant"}
                  /\ pAction \in {"record_cash", "record_transfer", "approve_transfers"})
                  => canRet = JsBool(FALSE)
            /\ r = "platform_support"
                  => (canRet = JsBool(TRUE) <=> pAction = "view_all_schools")

\* can has refused a teacher the recording of cash
C14_Witness ==
    /\ canCalled
    /\ pUser = UserOf(JsString("teacher"))
    /\ pAction = "record_cash"
    /\ canRet = JsBool(FALSE)

(* C15: in the school dashboard, once the session has been restored and no *)
(* user is logged in, every guarded route (Protected and RoleGuard)        *)
(* returns the redirect to /login, and no guarded page is rendered.        *)
C15_GuestSentToLogin ==
    (~authLoading /\ ~authUser.present) =>
        /\ (location = "/dashboard" \/ location \in DOMAIN GuardedRoute)
              => rendered = Redirect("/login")
        /\ ~(rendered.kind = "page" /\ rendered.target \in LayoutPages)

\* a guest has typed /users and, the session restore over, is sent to /login
C15_Witness ==
    /\ ~authLoading
    /\ ~authUser.present
    /\ location = "/users"
    /\ rendered = Redirect("/login")

(* C16: in the super-admin app the route guards admit a user logged in as  *)
(* platform_admin to dashboard, schools, subscriptions, revenue and team,  *)
(* and a user logged in as platform_support to dashboard and schools only, *)
(* redirecting them to /dashboard on every other guarded route.            *)
C16_PlatformRolesAdmitted ==
    /\ (AdminLoggedInAs("platform_admin") /\ location = "/dashboard")
          => rendered = Page("dashboard")
    /\ \A p \in DOMAIN AdminGuardedRoute :
          (AdminLoggedInAs("platform_admin") /\ location = p)
              => rendered = Page(AdminGuardedRoute[p])
    /\ (AdminLoggedInAs("platform_support") /\ location = "/dashboard")
          => rendered = Page("dashboard")
    /\ \A p \in DOMAIN AdminGuardedRoute :
          (AdminLoggedInAs("platform_support") /\ location = p)
              => rendered = IF p = "/schools" THEN Page("schools")
                            ELSE Redirect("/dashboard")

(* C17: for every role string that is a key of neither table roleInfo      *)
(* returns the synthetic descriptor - label the raw role string, empty     *)
(* description, colour #64748b - and for a recognised role it returns that *)
(* role's table entry.                                                     *)
C17_RoleInfoFallback ==
    (infoCalled /\ pUser.role.t = "string") =>
        infoRet = IF Unrecognised(pUser.role)
                  THEN [kind |-> "fallback", key |-> "", label |-> pUser.role,
                        description |-> JsString(""), color |-> JsString("#64748b")]
                  ELSE EntryInfo(GetPerms(pUser.role))

(* C18: roleInfo returns a defined value, and raises nothing, for every    *)
(* string input, the empty string and names in unexpected casing such as   *)
(* SCHOOL_ADMIN included.                                                  *)
C18_RoleInfoDefined ==
    (infoCalled /\ pUser.role.t = "string") => infoRet.kind # "undefined"

\* roleInfo has answered for SCHOOL_ADMIN with the synthetic descriptor
C18_Witness ==
    /\ infoCalled
    /\ pUser.role = JsString("SCHOOL_ADMIN")
    /\ infoRet.kind = "fallback"
    /\ infoRet.label = JsString("SCHOOL_ADMIN")

(* C19: the four roles of SCHOOL_PERMISSIONS have one capability key set,  *)
(* the keys of CAPABILITY_LABELS, and the two roles of                     *)
(* PLATFORM_PERMISSIONS have one key set, the keys of PLATFORM_CAP_LABELS; *)
(* so every cell of the two role matrices, and every can() call for a      *)
(* labelled capability of a role of that table, finds a stored boolean.    *)
C19_CapabilityKeysUniform ==
    /\ \A r \in SchoolRoles :
          /\ DOMAIN SCHOOL_PERMISSIONS[r].can = DOMAIN CAPABILITY_LABELS
          /\ \A cap \in DOMAIN CAPABILITY_LABELS :
                MatrixCell(SCHOOL_PERMISSIONS[r], cap).t = "boolean"
    /\ \A r \in PlatformRoles :
          /\ DOMAIN PLATFORM_PERMISSIONS[r].can = DOMAIN PLATFORM_CAP_LABELS
          /\ \A cap \in DOMAIN PLATFORM_CAP_LABELS :
                MatrixCell(PLATFORM_PERMISSIONS[r], cap).t = "boolean"
    /\ (canCalled /\ pUser.present /\ pUser.role.t = "string") =>
          /\ (pUser.role.s \in SchoolRoles /\ pAction \in DOMAIN CAPABILITY_LABELS)
                => canRet = MatrixCell(SCHOOL_PERMISSIONS[pUser.role.s], pAction)
          /\ (pUser.role.s \in PlatformRoles /\ pAction \in DOMAIN PLATFORM_CAP_LABELS)
                => canRet = MatrixCell(PLATFORM_PERMISSIONS[pUser.role.s], pAction)

\* can has answered an accountant for the last row of the role matrix
C19_Witness ==
    /\ canCalled
    /\ pUser = UserOf(JsString("accountant"))
    /\ pAction = "void_payment"
    /\ pAction \in DOMAIN CAPABILITY_LABELS
    /\ canRet = JsBool(FALSE)

(* C20: the role identifiers of the two tables are disjoint, so the lookup *)
(* SCHOOL_PERMISSIONS[role] ?? PLATFORM_PERMISSIONS[role] of can,          *)
(* allowedNav and roleInfo answers a platform role with its platform       *)
(* entry, never with a tenant-staff entry.                                 *)
C20_RoleTablesDisjoint ==
    /\ SchoolRoles \cap PlatformRoles = {}
    /\ \A r \in PlatformRoles :
          GetPerms(JsString(r)) = [kind |-> "platform", key |-> r]
    /\ (pUser.role.t = "string" /\ pUser.role.s \in PlatformRoles) =>
          /\ navCalled => navRet = PLATFORM_PERMISSIONS[pUser.role.s].nav
          /\ infoCalled => infoRet.kind = "platform"
          /\ (canCalled /\ pUser.present /\ pAction \in PlatformCapabilities)
                => canRet = JsBool(PLATFORM_PERMISSIONS[pUser.role.s].can[pAction])

\* the three accessors have answered for platform_support from its
\* platform entry
C20_Witness ==
    /\ pUser = UserOf(JsString("platform_support"))
    /\ pAction = "view_all_schools"
    /\ navCalled /\ navRet = <<"dashboard", "schools">>
    /\ infoCalled /\ infoRet.label = JsString("Support Staff")
    /\ canCalled /\ canRet = JsBool(TRUE)

(* C21: in the sidebar of the school dashboard an item of ALL_NAV is shown *)
(* to the logged-in user exactly when its id is in allowedNav(user.role);  *)
(* the users (Manage Staff) link is shown to school_admin and to no other  *)
(* role.                                                                   *)
C21_SidebarFollowsNav ==
    (rendered.kind = "page" /\ rendered.target \in LayoutPages) =>
        /\ \A i \in 1..Len(ALL_NAV) :
              Includes(visibleNav(authUser), ALL_NAV[i])
                  <=> Includes(allowedNav(authUser.role), ALL_NAV[i])
        /\ Includes(visibleNav(authUser), "users")
              <=> authUser.role = JsString("school_admin")

\* a bursar is on the dashboard and the sidebar lists every item but users
C21_Witness ==
    /\ rendered = Page("dashboard")
    /\ authUser = UserOf(JsString("bursar"))
    /\ visibleNav(authUser) = <<"dashboard", "students", "invoices", "payments",
                                "debtors", "approvals">>

(* C22: in every reachable state of a PayPage session, if screen is        *)
(* success or failed, or the page has been unmounted, no status-polling    *)
(* timer remains scheduled: neither startPolling's interval nor            *)
(* ProcessingScreen's timeout.                                             *)
C22_NoTimerInTerminalState ==
    (screen \in {"success", "failed"} \/ pagePhase = "unmounted")
        => (~pollRef /\ procTimer # "pending")

(* C23: after PayPage has been unmounted nothing updates screen, receipt   *)
(* or invoice; after ProcessingScreen has been torn down (it was mounted   *)
(* and the processing screen is no longer shown) the answer to its status  *)
(* request, issued by its timeout, updates none of them either.            *)
C23_NoUpdateAfterTeardown ==
    [][ /\ pagePhase = "unmounted"
              => (screen' = screen /\ receipt' = receipt /\ invoice' = invoice)
        /\ (procTimer # "none" /\ View # "processing"
               /\ procInFlight /\ ~procInFlight')
              => (screen' = screen /\ receipt' = receipt /\ invoice' = invoice) ]_vars

(* C24: a status check that ends in an error or in an answer that is not   *)
(* settled leaves the flow in processing with the polling active while     *)
(* fewer than 20 status checks have been started; the flow never enters    *)
(* failed before the 20th status check has been started.                   *)
C24_NoEarlyFailure ==
    [][ /\ (screen # "failed" /\ screen' = "failed") => StatusIssued' >= maxAttempts
        /\ (Mounted /\ screen = "processing" /\ pollRef /\ ~signalled'
               /\ (checksInFlight' < checksInFlight \/ (procInFlight /\ ~procInFlight'))
               /\ StatusIssued' < maxAttempts)
              => (screen' = "processing" /\ pollRef') ]_vars

(* C28: the receipt is recorded exactly when the flow enters success, and  *)
(* once recorded it is not changed or cleared by a later timer callback,   *)
(* answer or ProcessingScreen callback.                                    *)
C28_ReceiptKept ==
    [][ /\ receipt' # receipt => (screen # "success" /\ screen' = "success")
        /\ receipt # "null" => receipt' = receipt ]_vars

(* C25: when the handling of a request ends with its 401 - no refresh      *)
(* token is stored, the refresh is rejected or answers without an access   *)
(* token, or the replay is answered 401 again - the interceptor removes    *)
(* the stored access token and the stored user, sends the browser to       *)
(* /login, and rejects the caller's promise.                               *)
C25_Final401LogsOut ==
    [][ \A r \in Reqs :
          /\ (apiReq[r].phase \in {"sent", "waiting"}
                /\ apiReq'[r].phase \in {"resolved", "rejected"}
                /\ apiReq'[r].status = 401)
               => /\ apiReq'[r].phase = "rejected"
                  /\ ~apiStore'.token
                  /\ ~apiStore'.user
                  /\ apiLocation' = "/login"
          /\ (apiReq[r].phase = "sent" /\ apiReq'[r].status = 401
                /\ (apiReq[r].retry \/ ~apiStore.refresh_token))
               => apiReq'[r].phase = "rejected" ]_vars

\* a replayed request has been answered 401 again: it is rejected, the
\* storage is empty and the browser is on /login
C25_Witness ==
    \E r \in Reqs :
        /\ apiReq[r].phase = "rejected"
        /\ apiReq[r].status = 401
        /\ apiReq[r].replays = 1
        /\ apiStore = [token |-> FALSE, refresh_token |-> FALSE, user |-> FALSE]
        /\ apiLocation = "/login"

(* C26: at most one refresh request is in flight at any time; a 401 that   *)
(* arrives while a refresh is pending waits for that refresh and starts no *)
(* other.                                                                  *)
C26_SingleRefreshInFlight ==
    /\ Cardinality(pendingRefresh) <= 1
    /\ \A r \in Reqs : apiReq[r].phase = "waiting" => apiReq[r].awaits \in pendingRefresh
    /\ (refreshPromise # 0) <=> (pendingRefresh # {})

\* two requests answered 401 await the one refresh that the first started
C26_Witness ==
    /\ pendingRefresh = {1}
    /\ apiReq[1].phase = "waiting" /\ apiReq[1].awaits = 1
    /\ apiReq[2].phase = "waiting" /\ apiReq[2].awaits = 1

(* C27: each original request enters the refresh at most once and is       *)
(* replayed at most once; a request marked as retried, or addressed to the *)
(* login or refresh endpoint, is never refreshed or replayed again, so the *)
(* interceptor handles at most two answers per request, also when every    *)
(* answer is 401.                                                          *)
C27_AtMostOneReplay ==
    [][ \A r \in Reqs :
          /\ apiReq'[r].refreshes <= 1
          /\ apiReq'[r].replays <= 1
          /\ apiReq'[r].handled <= 2
          /\ (apiReq[r].phase = "sent" /\ apiReq'[r].phase # "sent"
                /\ (apiReq[r].retry \/ apiReq[r].url \in {"login", "refresh"}))
               => /\ apiReq'[r].phase \in {"resolved", "rejected"}
                  /\ apiReq'[r].refreshes = apiReq[r].refreshes
                  /\ apiReq'[r].replays = apiReq[r].replays ]_vars

\* a request was answered 401, refreshed, replayed and answered 401 again
C27_Witness ==
    \E r \in Reqs :
        /\ apiReq[r].phase = "rejected"
        /\ apiReq[r].refreshes = 1
        /\ apiReq[r].replays = 1
        /\ apiReq[r].handled = 2
        /\ apiReq[r].status = 401

(* C29: for every defined role navigation agrees with the capability map:  *)
(* students is in the nav list iff view_students is true, invoices iff     *)
(* view_invoices, debtors iff view_debtors, payments iff record_cash,      *)
(* approvals iff approve_transfers, users iff manage_users; for platform   *)
(* roles schools iff view_all_schools, subscriptions iff                   *)
(* manage_subscriptions, revenue iff view_revenue, team iff manage_team.   *)
C29_NavAgreesWithCapabilities ==
    LET schoolPairs ==
            {<<"students", "view_students">>, <<"invoices", "view_invoices">>,
             <<"debtors", "view_debtors">>, <<"payments", "record_cash">>,
             <<"approvals", "approve_transfers">>, <<"users", "manage_users">>}
        platformPairs ==
            {<<"schools", "view_all_schools">>,
             <<"subscriptions", "manage_subscriptions">>,
             <<"revenue", "view_revenue">>, <<"team", "manage_team">>}
    IN
    /\ \A r \in SchoolRoles : \A pr \in schoolPairs :
          Includes(allowedNav(JsString(r)), pr[1])
              <=> can(UserOf(JsString(r)), pr[2]) = JsBool(TRUE)
    /\ \A r \in PlatformRoles : \A pr \in platformPairs :
          Includes(allowedNav(JsString(r)), pr[1])
              <=> can(UserOf(JsString(r)), pr[2]) = JsBool(TRUE)
    /\ (navCalled /\ canCalled /\ pUser.present /\ pUser.role.t = "string") =>
          \A pr \in schoolPairs \cup platformPairs :
              ( /\ pAction = pr[2]
                /\ \/ (pUser.role.s \in SchoolRoles /\ pr \in schoolPairs)
                   \/ (pUser.role.s \in PlatformRoles /\ pr \in platformPairs) )
              => (Includes(navRet, pr[1]) <=> canRet = JsBool(TRUE))

\* both accessors have answered for an accountant: no students link, no
\* view_students
C29_Witness ==
    /\ navCalled /\ canCalled
    /\ pUser = UserOf(JsString("accountant"))
    /\ pAction = "view_students"
    /\ ~Includes(navRet, "students")
    /\ canRet = JsBool(FALSE)

(* C30: route-guard redirects settle: the nav list of every defined role   *)
(* contains dashboard, and for any logged-in user and any URL, of the      *)
(* school dashboard and of the super-admin app, following the redirects    *)
(* ends on a rendered page after at most two of them.                      *)
C30_RedirectsSettle ==
    /\ \A r \in SchoolRoles \cup PlatformRoles :
          Includes(allowedNav(JsString(r)), "dashboard")
    /\ (authUser.present /\ ~authLoading) =>
          /\ \A p \in Paths : AfterTwoRedirects(p, authUser).kind = "page"
          /\ rendered.kind = "redirect" =>
                RouteElement(rendered.target, authUser, FALSE).kind = "page"
    /\ \A u \in Users \ {NoUser} : \A p \in AdminPaths :
          AdminAfterTwoRedirects(p, AdminContext(u, FALSE)).kind = "page"

\* a user with a role outside the tables has gone to a path that only the
\* wildcard route matches and is being sent to the dashboard page
C30_Witness ==
    /\ authUser = UserOf(JsString("parent"))
    /\ ~authLoading
    /\ location = "/settings"
    /\ rendered = Redirect("/dashboard")
    /\ AfterTwoRedirects(location, authUser) = Page("dashboard")

====
